---- MODULE Spec2Model ----
(***************************************************************************)
(* Model of the network error log pipeline of NetworkLogReader             *)
(* (src/old/network_log_reader_v01.py): read_log_file, initialize_network, *)
(* layout_network and calc_plot_data, run in that order by the             *)
(* constructor; of the plotting script and the widgets of                  *)
(* NetworkLogPlotter (src/network_log_plotter_v02.py, specification        *)
(* SpecUI); and of the methods of the reader called on their own           *)
(* (specification SpecCalls).                                              *)
(*                                                                         *)
(* Python dicts whose iteration order the code depends on are modelled as  *)
(* sequences of <<key, value>> pairs in insertion order.  Dicts that are   *)
(* only indexed are modelled as functions whose DOMAIN is the key set.     *)
(***************************************************************************)
EXTENDS Integers, Sequences, FiniteSets, TLC

\* ------------------------------------------------------------------------
\* Bounds of the model
\* ------------------------------------------------------------------------
MaxRows == 2

\* Largest number of nodes of a graph handed to square_layout on its own.
MaxNodes == 4

\* An attribute that has not been assigned yet.
Unset == <<>>

\* The max_lines argument: <<>> stands for None, <<m>> for the integer m.
NoLimit == <<>>

\* Server addresses that occur in the modelled log files.
Nodes == {"10.0.0.2", "10.0.0.9", "10.0.0.10"}

\* The characters of an address, as ASCII codes ('.' = 46, '0' = 48).
Chars(s) ==
  CASE s = "10.0.0.2"  -> <<49, 48, 46, 48, 46, 48, 46, 50>>
    [] s = "10.0.0.9"  -> <<49, 48, 46, 48, 46, 48, 46, 57>>
    [] s = "10.0.0.10" -> <<49, 48, 46, 48, 46, 48, 46, 49, 48>>
    [] s = "10.0.0.11" -> <<49, 48, 46, 48, 46, 48, 46, 49, 49>>
    [] s = "10.0.0.100" -> <<49, 48, 46, 48, 46, 48, 46, 49, 48, 48>>
    [] s = "10.0.1.1"  -> <<49, 48, 46, 48, 46, 49, 46, 49>>

\* ------------------------------------------------------------------------
\* Generic helpers: sequences, ordered dicts
\* ------------------------------------------------------------------------
Range(s) == {s[i] : i \in DOMAIN s}

Min(a, b) == IF a < b THEN a ELSE b

Max(a, b) == IF a < b THEN b ELSE a

\* Keys of an ordered dict, as a set and in insertion order.
DictKeys(d) == {d[i][1] : i \in DOMAIN d}

DictKeySeq(d) == [i \in DOMAIN d |-> d[i][1]]

DictValueSeq(d) == [i \in DOMAIN d |-> d[i][2]]

\* d.get(k, default)
DictGet(d, k, default) ==
  IF k \in DictKeys(d)
  THEN d[CHOOSE i \in DOMAIN d : d[i][1] = k][2]
  ELSE default

\* d[k] = v : an existing key keeps its place, a new key is appended.
DictSet(d, k, v) ==
  IF k \in DictKeys(d)
  THEN [i \in DOMAIN d |-> IF d[i][1] = k THEN <<k, v>> ELSE d[i]]
  ELSE Append(d, <<k, v>>)

\* dict(zip(names, counts))
RECURSIVE DictZip(_, _)
DictZip(names, counts) ==
  IF names = <<>> \/ counts = <<>>
  THEN <<>>
  ELSE LET n == Min(Len(names), Len(counts))
       IN  DictSet(DictZip(SubSeq(names, 1, n - 1), SubSeq(counts, 1, n - 1)),
                   names[n], counts[n])

RECURSIVE SumSeq(_)
SumSeq(s) == IF s = <<>> THEN 0 ELSE s[1] + SumSeq(Tail(s))

\* ------------------------------------------------------------------------
\* ipaddress.IPv4Address and the orderings of node names
\* ------------------------------------------------------------------------
\* Value of the dotted quad spelled by the characters cs: the decimal
\* octets are packed big-endian into one 32 bit integer.
RECURSIVE ParseQuad(_, _, _)
ParseQuad(cs, packed, octet) ==
  IF cs = <<>>
  THEN packed * 256 + octet
  ELSE IF cs[1] = 46
       THEN ParseQuad(Tail(cs), packed * 256 + octet, 0)
       ELSE ParseQuad(Tail(cs), packed, octet * 10 + (cs[1] - 48))

IPv4Address(s) == ParseQuad(Chars(s), 0, 0)

\* Python's ordering of str: character by character, a proper prefix first.
RECURSIVE SeqLess(_, _)
SeqLess(a, b) ==
  IF b = <<>> THEN FALSE
  ELSE IF a = <<>> THEN TRUE
  ELSE IF a[1] # b[1] THEN a[1] < b[1]
  ELSE SeqLess(Tail(a), Tail(b))

StrKey(s) == Chars(s)

\* sorted(S) of a collection of distinct strings under Python's str order.
RECURSIVE SortedStr(_)
SortedStr(S) ==
  IF S = {} THEN <<>>
  ELSE LET m == CHOOSE x \in S : \A y \in S \ {x} : SeqLess(StrKey(x), StrKey(y))
       IN  <<m>> \o SortedStr(S \ {m})

\* Order of two addresses as plain strings (sorted without the key).
StrLess(a, b) == SeqLess(StrKey(a), StrKey(b))

\* Order of two addresses under key=ipaddress.IPv4Address.
IPv4Less(a, b) == IPv4Address(a) < IPv4Address(b)

\* sorted(S, key=ipaddress.IPv4Address) of a collection of distinct names.
RECURSIVE SortedIPv4(_)
SortedIPv4(S) ==
  IF S = {} THEN <<>>
  ELSE LET m == CHOOSE x \in S : \A y \in S \ {x} : IPv4Less(x, y)
       IN  <<m>> \o SortedIPv4(S \ {m})

\* ------------------------------------------------------------------------
\* State
\* ------------------------------------------------------------------------
VARIABLES
  pc,                   \* stage of the constructor that has completed
  log_file,             \* data rows of the log file, in file order
  max_lines,            \* the constructor's max_lines argument
  panda_df,             \* the rows that are used
  pivot_receiver,       \* <<receiver, total fails>>, descending by fails
  pivot_sender,         \* <<sender, total fails>>, descending by fails
  raw_data,             \* tuple of (sender, receiver, fails)
  sender_fails_name, receiver_fails_name,
  sender_fails_count, receiver_fails_count,
  sender_fails_dict, receiver_fails_dict, total_fails_dict,
  unique_nodes,         \* list of node names
  send_graph, receive_graph,
  composite_dict,
  node_positions,
  plot_data,
  ui_pc,                \* step of the plotting script that has completed
  fig,                  \* the figure widget of plot_network3
  slider, slider_label, \* node selector and its label
  drop, drop_label,     \* edge type selector and its label
  call,                 \* the last call of a method from outside, with its arguments
  returned              \* what that call returned or raised

reader_vars == <<panda_df, pivot_receiver, pivot_sender, raw_data,
                 sender_fails_name, receiver_fails_name,
                 sender_fails_count, receiver_fails_count,
                 sender_fails_dict, receiver_fails_dict, total_fails_dict,
                 unique_nodes>>

network_vars == <<send_graph, receive_graph, composite_dict>>

ui_vars == <<ui_pc, fig, slider, slider_label, drop, drop_label>>

call_vars == <<call, returned>>

vars == <<pc, log_file, max_lines, reader_vars, network_vars,
          node_positions, plot_data, ui_vars, call_vars>>

\* ------------------------------------------------------------------------
\* read_log_file
\* ------------------------------------------------------------------------
\* The fail counts that occur in the modelled log files.
FailValues == {0, 1}

\* One data row of the log: sender, receiver, fails.
Rows == [sender : Nodes, receiver : Nodes, fails : FailValues]

LogFiles == UNION {[1..n -> Rows] : n \in 0..MaxRows}

\* The values of max_lines the model draws from: None, and an integer of
\* each sign.
MaxLinesValues == {NoLimit} \cup {<<m>> : m \in {-1, 0, 1}}

\* seq[start:] of Python, for any integer start.
SliceFrom(seq, start) ==
  LET first == IF start < 0 THEN Max(Len(seq) + start, 0)
                            ELSE Min(start, Len(seq))
  IN  SubSeq(seq, first + 1, Len(seq))

\* panda_df[-max_lines:]
LastLines(df, m) == SliceFrom(df, 0 - m)

\* Number of the rows whose column col is name (aggfunc=len).
RECURSIVE CountRows(_, _, _)
CountRows(df, col, name) ==
  IF df = <<>> THEN 0
  ELSE (IF df[1][col] = name THEN 1 ELSE 0) + CountRows(Tail(df), col, name)

\* Sum of the 'fails' column over the rows whose column col is name.
RECURSIVE SumFails(_, _, _)
SumFails(df, col, name) ==
  IF df = <<>> THEN 0
  ELSE (IF df[1][col] = name THEN df[1].fails ELSE 0)
       + SumFails(Tail(df), col, name)

\* df.pivot_table(values='fails', index=col, aggfunc=np.sum): one line per
\* distinct value of the column, in the sorted order of the index.
PivotTable(df, col) ==
  LET index == SortedStr({df[i][col] : i \in DOMAIN df})
  IN  [i \in DOMAIN index |-> <<index[i], SumFails(df, col, index[i])>>]

\* The pivot table if it were left in the order of its index.
SortValuesOmitted(pivot) == {pivot}

\* pivot.sort_values(by=['fails'], ascending=False): the orders the sort can
\* leave the lines in; the order among equal totals is not specified.
SortValuesDescending(pivot) ==
  LET n == Len(pivot)
      perms == {p \in [1..n -> 1..n] : \A i, j \in 1..n : i # j => p[i] # p[j]}
  IN  {[i \in 1..n |-> pivot[p[i]]] : p \in
         {q \in perms : \A i \in 1..n : i < n => pivot[q[i]][2] >= pivot[q[i + 1]][2]}}

\* add_dicts(d1, d2), with the items of d2 taken in order.
RECURSIVE add_dicts(_, _)
add_dicts(d1, d2) ==
  IF d2 = <<>> THEN d1
  ELSE LET d3 == add_dicts(d1, SubSeq(d2, 1, Len(d2) - 1))
           k  == d2[Len(d2)][1]
           v  == d2[Len(d2)][2]
       IN  IF k \in DictKeys(d3)
           THEN DictSet(d3, k, DictGet(d3, k, 0) + v)
           ELSE DictSet(d3, k, v)

\* The dict passed as d1 if d3 were d1 itself and not a copy.
add_dicts_alias(d1, d2) == add_dicts(d1, d2)

\* The dict passed as d1, as add_dicts leaves it: d3 is d1.copy(), so the
\* updates of d3 do not reach d1.
add_dicts_d1(d1, d2) == d1

Init ==
  /\ pc = "start"
  /\ log_file \in LogFiles
  /\ max_lines = NoLimit
  /\ panda_df = Unset
  /\ pivot_receiver = Unset
  /\ pivot_sender = Unset
  /\ raw_data = Unset
  /\ sender_fails_name = Unset
  /\ receiver_fails_name = Unset
  /\ sender_fails_count = Unset
  /\ receiver_fails_count = Unset
  /\ sender_fails_dict = Unset
  /\ receiver_fails_dict = Unset
  /\ total_fails_dict = Unset
  /\ unique_nodes = Unset
  /\ send_graph = Unset
  /\ receive_graph = Unset
  /\ composite_dict = Unset
  /\ node_positions = Unset
  /\ plot_data = Unset
  /\ ui_pc = "none"
  /\ fig = Unset
  /\ slider = Unset
  /\ slider_label = Unset
  /\ drop = Unset
  /\ drop_label = Unset
  /\ call = Unset
  /\ returned = Unset

read_log_file(m) ==
  LET df == IF m = NoLimit THEN log_file ELSE LastLines(log_file, m[1]) IN
  /\ pc = "start"
  /\ max_lines' = m
  /\ panda_df' = df
  /\ pivot_receiver' \in SortValuesDescending(PivotTable(df, "receiver"))
  /\ pivot_sender' \in SortValuesDescending(PivotTable(df, "sender"))
  /\ raw_data' = [i \in DOMAIN df |-> <<df[i].sender, df[i].receiver, df[i].fails>>]
  /\ sender_fails_name' = DictKeySeq(pivot_sender')
  /\ receiver_fails_name' = DictKeySeq(pivot_receiver')
  /\ sender_fails_count' = DictValueSeq(pivot_sender')
  /\ receiver_fails_count' = DictValueSeq(pivot_receiver')
  /\ receiver_fails_dict' = DictZip(receiver_fails_name', receiver_fails_count')
  /\ total_fails_dict' = add_dicts(DictZip(sender_fails_name', sender_fails_count'),
                                   receiver_fails_dict')
  /\ sender_fails_dict' = add_dicts_d1(DictZip(sender_fails_name', sender_fails_count'),
                                       receiver_fails_dict')
  /\ unique_nodes' = SortedIPv4(Range(sender_fails_name') \cup Range(receiver_fails_name'))
  /\ pc' = "read"
  /\ UNCHANGED <<log_file, network_vars, node_positions, plot_data, ui_vars, call_vars>>

ReadLogFile == \E m \in MaxLinesValues : read_log_file(m)

\* ------------------------------------------------------------------------
\* initialize_network
\* ------------------------------------------------------------------------
\* A networkx graph is its adjacency: an ordered dict from each node, in
\* the order the nodes were added, to the ordered dict of its successors.
\* In a DiGraph a successor maps to the weight of the edge, in a
\* MultiDiGraph to the weights of the parallel edges in insertion order.
EmptyGraph == <<>>

GraphNodes(G) == DictKeySeq(G)

\* G.add_node(n)
AddNode(G, n) == IF n \in DictKeys(G) THEN G ELSE Append(G, <<n, <<>>>>)

\* add_edge of a graph without parallel edges: the new edge replaces the old.
MultiReplaceEdge(G, u, v, w) ==
  LET G1   == AddNode(AddNode(G, u), v)
      nbrs == DictGet(G1, u, <<>>)
  IN  DictSet(G1, u, DictSet(nbrs, v, <<w>>))

\* MultiDiGraph.add_edge(u, v, weight=w): a further parallel edge.
MultiAddEdge(G, u, v, w) ==
  LET G1   == AddNode(AddNode(G, u), v)
      nbrs == DictGet(G1, u, <<>>)
  IN  DictSet(G1, u, DictSet(nbrs, v, Append(DictGet(nbrs, v, <<>>), w)))

\* DiGraph.add_edge(u, v, weight=w): the edge u->v gets the weight w.
DiAddEdge(G, u, v, w) ==
  LET G1   == AddNode(AddNode(G, u), v)
      nbrs == DictGet(G1, u, <<>>)
  IN  DictSet(G1, u, DictSet(nbrs, v, w))

\* mdg.add_weighted_edges_from(entries)
RECURSIVE add_weighted_edges_from(_, _)
add_weighted_edges_from(G, entries) ==
  IF entries = <<>> THEN G
  ELSE LET e == entries[Len(entries)]
       IN  MultiAddEdge(add_weighted_edges_from(G, SubSeq(entries, 1, Len(entries) - 1)),
                        e[1], e[2], e[3])

\* The weight a DiGraph filled directly from the entries would keep: the last.
LastWeight(ws) == ws[Len(ws)]

\* Weight of the edge of the directed graph that stands for the parallel
\* edges with the weights ws.
SumWeights(ws) == SumSeq(ws)

\* Inner loop of create_network_graph: the successors of send_node.
RECURSIVE AddSummedEdges(_, _, _)
AddSummedEdges(d_graph, send_node, receive_nodes) ==
  IF receive_nodes = <<>> THEN d_graph
  ELSE LET last == receive_nodes[Len(receive_nodes)]
       IN  DiAddEdge(AddSummedEdges(d_graph, send_node,
                                    SubSeq(receive_nodes, 1, Len(receive_nodes) - 1)),
                     send_node, last[1], SumWeights(last[2]))

\* Outer loop of create_network_graph over mdg.adjacency().
RECURSIVE SumAdjacency(_, _)
SumAdjacency(d_graph, adjacency) ==
  IF adjacency = <<>> THEN d_graph
  ELSE LET last == adjacency[Len(adjacency)]
       IN  AddSummedEdges(SumAdjacency(d_graph, SubSeq(adjacency, 1, Len(adjacency) - 1)),
                          last[1], last[2])

create_network_graph(entries) ==
  LET mdg == add_weighted_edges_from(EmptyGraph, entries)
  IN  SumAdjacency(EmptyGraph, mdg)

\* f[k] = v on a dict modelled as a function.
FnSet(f, k, v) == [x \in (DOMAIN f) \cup {k} |-> IF x = k THEN v ELSE f[x]]

\* The nodes of the graph that have at least one successor.
NodesWithSuccessors(net_graph) ==
  {n \in DictKeys(net_graph) : DictGet(net_graph, n, <<>>) # <<>>}

\* The nodes whose entry append_adjacency writes: every node of the graph.
AdjacencyNodes(net_graph) == DictKeys(net_graph)

\* append_adjacency(composite, net_graph, key_name), when composite has an
\* entry for every node of the graph.
append_adjacency(composite, net_graph, key_name) ==
  [n \in DOMAIN composite |->
     IF n \in AdjacencyNodes(net_graph)
     THEN FnSet(composite[n], key_name, DictGet(net_graph, n, <<>>))
     ELSE composite[n]]

\* composite[node_a] of append_adjacency raises KeyError.
AppendAdjacencyRaises(composite, net_graph) ==
  \E n \in AdjacencyNodes(net_graph) : n \notin DOMAIN composite

\* The loop of create_composite_dict over unique_nodes, on the composite
\* the two append_adjacency calls left.
StoreSummedErrors(composite) ==
  [node \in DOMAIN composite |->
     LET send_error    == DictGet(sender_fails_dict, node, 0)
         receive_error == DictGet(receiver_fails_dict, node, 0)
     IN  [k \in (DOMAIN composite[node]) \cup
                {"Send Errors", "Receive Errors", "Send+Receive Errors",
                 "Send+Receive Edges"} |->
            CASE k = "Send Errors" -> send_error
              [] k = "Receive Errors" -> receive_error
              [] k = "Send+Receive Errors" -> send_error + receive_error
              [] k = "Send+Receive Edges" ->
                   add_dicts(composite[node]["Send Edges"], composite[node]["Receive Edges"])
              [] k = "Send Edges" ->
                   add_dicts_d1(composite[node]["Send Edges"], composite[node]["Receive Edges"])
              [] OTHER -> composite[node][k]]]

\* composite[node]['Send Edges'] or ['Receive Edges'] raises KeyError.
StoreSummedErrorsRaises(composite) ==
  \E node \in DOMAIN composite :
     \/ "Send Edges" \notin DOMAIN composite[node]
     \/ "Receive Edges" \notin DOMAIN composite[node]

\* composite after the two append_adjacency calls of create_composite_dict.
CompositeAdjacency(send, receive) ==
  LET composite == [key \in Range(unique_nodes) |-> <<>>]
  IN  append_adjacency(append_adjacency(composite, send, "Send Edges"),
                       receive, "Receive Edges")

CreateCompositeRaises(send, receive) ==
  \/ AppendAdjacencyRaises([key \in Range(unique_nodes) |-> <<>>], send)
  \/ AppendAdjacencyRaises([key \in Range(unique_nodes) |-> <<>>], receive)
  \/ StoreSummedErrorsRaises(CompositeAdjacency(send, receive))

create_composite_dict(send, receive) ==
  StoreSummedErrors(CompositeAdjacency(send, receive))

\* int(z) of a fails value: the numpy integer of the column as a Python int
\* of the same value (the counts of the modelled logs are integers).
ToInt(z) == z

\* initialize_network if receive_fails kept the node order of the log.
InitializeNetworkWithoutSwitch ==
  LET send_fails    == [i \in DOMAIN raw_data |->
                          <<raw_data[i][1], raw_data[i][2], ToInt(raw_data[i][3])>>]
      receive_fails == send_fails
  IN
  /\ pc = "read"
  /\ send_graph' = create_network_graph(send_fails)
  /\ receive_graph' = create_network_graph(receive_fails)
  /\ IF CreateCompositeRaises(send_graph', receive_graph')
     THEN /\ pc' = "raised"
          /\ UNCHANGED composite_dict
     ELSE /\ pc' = "initialized"
          /\ composite_dict' = create_composite_dict(send_graph', receive_graph')
  /\ UNCHANGED <<log_file, max_lines, reader_vars, node_positions, plot_data, ui_vars, call_vars>>

InitializeNetwork ==
  LET send_fails    == [i \in DOMAIN raw_data |->
                          <<raw_data[i][1], raw_data[i][2], ToInt(raw_data[i][3])>>]
      receive_fails == [i \in DOMAIN raw_data |->
                          <<raw_data[i][2], raw_data[i][1], ToInt(raw_data[i][3])>>]
  IN
  /\ pc = "read"
  /\ send_graph' = create_network_graph(send_fails)
  /\ receive_graph' = create_network_graph(receive_fails)
  /\ IF CreateCompositeRaises(send_graph', receive_graph')
     THEN /\ pc' = "raised"
          /\ UNCHANGED composite_dict
     ELSE /\ pc' = "initialized"
          /\ composite_dict' = create_composite_dict(send_graph', receive_graph')
  /\ UNCHANGED <<log_file, max_lines, reader_vars, node_positions, plot_data, ui_vars, call_vars>>

\* ------------------------------------------------------------------------
\* Numbers: a float is modelled as the exact fraction num/den with den >= 0.
\* den = 0 stands for the results of a division by zero: nan when num = 0,
\* an infinity otherwise.
\* ------------------------------------------------------------------------
Rat(n, d) == [num |-> n, den |-> d]

IsNaN(a) == a.den = 0 /\ a.num = 0

IsFinite(a) == a.den > 0

RatAdd(a, b) == Rat(a.num * b.den + b.num * a.den, a.den * b.den)

RatMul(a, b) == Rat(a.num * b.num, a.den * b.den)

\* a <= b and a = b of floats: comparisons with nan are false.
RatLeq(a, b) ==
  /\ ~IsNaN(a) /\ ~IsNaN(b)
  /\ IF IsFinite(a) /\ IsFinite(b) THEN a.num * b.den <= b.num * a.den
     ELSE IF IsFinite(a) THEN b.num > 0
     ELSE IF IsFinite(b) THEN a.num < 0
     ELSE a.num < 0 \/ b.num > 0

RatEq(a, b) == RatLeq(a, b) /\ RatLeq(b, a)

\* w / max_weight of numpy floats.
Divide(w, max_weight) ==
  IF max_weight = 0
  THEN Rat(IF w > 0 THEN 1 ELSE IF w < 0 THEN -1 ELSE 0, 0)
  ELSE IF max_weight > 0 THEN Rat(w, max_weight) ELSE Rat(0 - w, 0 - max_weight)

\* ------------------------------------------------------------------------
\* layout_network
\* ------------------------------------------------------------------------
\* noise=0.15, the argument layout_network passes to square_layout.
Noise == Rat(15, 100)

\* Results of random.uniform(-spacing, spacing), as multiples of spacing:
\* the model draws the two ends of the interval.
RandomSamples == {-1, 1}

MaxDraws == 2 * Cardinality(Nodes)

\* The streams of random results the model draws from: the results
\* alternate between the two ends, starting with either.
RandomStreams ==
  {[i \in 1..MaxDraws |-> IF i % 2 = 1 THEN first ELSE 0 - first] : first \in RandomSamples}

\* floor(node_count ** 0.5): the root rounded down.
FloorSqrt(n) == CHOOSE k \in 0..n : k * k <= n /\ (k + 1) * (k + 1) > n

\* ceil(node_count ** 0.5)
CeilSqrt(n) == CHOOSE k \in 0..n : k * k >= n /\ (k = 0 \/ (k - 1) * (k - 1) < n)

\* x + noise1 for the grid index i: (i + r * noise) * spacing, spacing = 1/k.
NoisyCoordinate(i, r, noise, k) ==
  Rat(i * noise.den + r * noise.num, k * noise.den)

\* The grid filled column by column (x outer, y inner).
next_node_by_column(node_count, noise, stream) ==
  LET nodes_per_axis == CeilSqrt(node_count)
      max_nodes == nodes_per_axis * nodes_per_axis
  IN  [m \in 1..max_nodes |->
         <<NoisyCoordinate((m - 1) \div nodes_per_axis, stream[2 * m - 1], noise, nodes_per_axis),
           NoisyCoordinate((m - 1) % nodes_per_axis, stream[2 * m], noise, nodes_per_axis)>>]

\* The coordinates the generator next_node(node_count) yields, in order: row
\* by row (y outer, x inner), two random results per coordinate.
next_node(node_count, noise, stream) ==
  LET nodes_per_axis == CeilSqrt(node_count)
      max_nodes == nodes_per_axis * nodes_per_axis
  IN  [m \in 1..max_nodes |->
         <<NoisyCoordinate((m - 1) % nodes_per_axis, stream[2 * m - 1], noise, nodes_per_axis),
           NoisyCoordinate((m - 1) \div nodes_per_axis, stream[2 * m], noise, nodes_per_axis)>>]

\* next(nn) raises StopIteration for some node.
SquareLayoutRaises(net_graph) ==
  LET n == Cardinality(DictKeys(net_graph))
  IN  n > CeilSqrt(n) * CeilSqrt(n)

\* The layout of the nodes that have a successor only.
square_layout_of_senders(net_graph, noise, stream) ==
  LET sorted_nodes == SortedIPv4(NodesWithSuccessors(net_graph))
      nn == next_node(Len(sorted_nodes), noise, stream)
  IN  [i \in DOMAIN sorted_nodes |-> <<sorted_nodes[i], nn[i]>>]

square_layout(net_graph, noise, stream) ==
  LET sorted_nodes == SortedIPv4(DictKeys(net_graph))
      nn == next_node(Len(sorted_nodes), noise, stream)
  IN  [i \in DOMAIN sorted_nodes |-> <<sorted_nodes[i], nn[i]>>]

\* nx.spiral_layout(G): the i-th node of the graph is put on the i-th point
\* of a spiral.  The points are distinct; the model keeps the index along
\* the spiral in place of the two real coordinates.
spiral_layout(net_graph) ==
  LET nodes == GraphNodes(net_graph)
  IN  [i \in DOMAIN nodes |-> <<nodes[i], <<Rat(i - 1, Len(nodes)), Rat(i - 1, Len(nodes))>>>>]

\* The order_by_ip loop if the keys were sorted as plain strings.
OrderByIpAsStrings(positions) ==
  LET node == SortedStr(DictKeys(positions))
  IN  [i \in DOMAIN positions |-> <<node[i], positions[i][2]>>]

\* The order_by_ip loop: the i-th value of the position dict, in its
\* iteration order, is stored under the i-th key in address order.
OrderByIp(positions) ==
  LET node == SortedIPv4(DictKeys(positions))
  IN  [i \in DOMAIN positions |-> <<node[i], positions[i][2]>>]

layout_network(order_by_ip, rectangular_grid, stream) ==
  LET positions == IF rectangular_grid
                   THEN square_layout(send_graph, Noise, stream)
                   ELSE spiral_layout(send_graph)
  IN  IF order_by_ip THEN OrderByIp(positions) ELSE positions

\* layout_network if the constructor called it before initialize_network:
\* the reader has no send_graph yet and the call fails.
LayoutNetworkBeforeInitialize ==
  /\ pc = "read"
  /\ pc' = "raised"
  /\ UNCHANGED <<log_file, max_lines, reader_vars, network_vars, node_positions,
                 plot_data, ui_vars, call_vars>>

LayoutNetwork ==
  /\ pc = "initialized"
  /\ IF SquareLayoutRaises(send_graph)
     THEN /\ pc' = "raised"
          /\ UNCHANGED node_positions
     ELSE /\ pc' = "laid_out"
          /\ \E stream \in RandomStreams :
               node_positions' = layout_network(TRUE, TRUE, stream)
  /\ UNCHANGED <<log_file, max_lines, reader_vars, network_vars, plot_data, ui_vars, call_vars>>

\* ------------------------------------------------------------------------
\* calc_plot_data
\* ------------------------------------------------------------------------
\* The edge types without the combined one.
edge_types_without_sum == <<"Send", "Receive">>

edge_types == <<"Send", "Receive", "Send+Receive">>

\* edge_type + " Edges"
EdgesKey(edge_type) ==
  CASE edge_type = "Send" -> "Send Edges"
    [] edge_type = "Receive" -> "Receive Edges"
    [] edge_type = "Send+Receive" -> "Send+Receive Edges"

RECURSIVE MaxSeq(_)
MaxSeq(s) == IF Len(s) = 1 THEN s[1] ELSE Max(s[1], MaxSeq(Tail(s)))

RECURSIVE Flatten(_)
Flatten(ss) == IF ss = <<>> THEN <<>> ELSE ss[1] \o Flatten(Tail(ss))

\* The divisor of the weight column: np.max(line_data[:, 4]).
MaxWeight(weights) == MaxSeq(weights)

\* The lookups of find_edge_info that raise: node_a or an edge endpoint
\* without a position.
FindEdgeInfoRaises(node_a, edge_type) ==
  \/ node_a \notin DictKeys(node_positions)
  \/ \E node_b \in DictKeys(composite_dict[node_a][EdgesKey(edge_type)]) :
        node_b \notin DictKeys(node_positions)

\* find_edge_info(node_a, edge_type): [edge_coordinates, line_data, weights]
find_edge_info(node_a, edge_type) ==
  LET node_a_coordinates == DictGet(node_positions, node_a, <<>>)
      x0 == node_a_coordinates[1]
      y0 == node_a_coordinates[2]
      edge == composite_dict[node_a][EdgesKey(edge_type)]
      weights == DictValueSeq(edge)
      x1(i) == DictGet(node_positions, edge[i][1], <<>>)[1]
      y1(i) == DictGet(node_positions, edge[i][1], <<>>)[2]
      edge_x == Flatten([i \in DOMAIN edge |-> <<x0, x1(i), "None">>])
      edge_y == Flatten([i \in DOMAIN edge |-> <<y0, y1(i), "None">>])
      line_data ==
        IF edge = <<>> THEN <<>>
        ELSE [i \in DOMAIN edge |->
                <<x0, x1(i), y0, y1(i), Divide(edge[i][2], MaxWeight(weights))>>]
  IN  [edge_coordinates |-> <<edge_x, edge_y>>,
       line_data |-> line_data,
       weights |-> weights]

\* Defaults of lines_to_shapes: min_weight=0.4, max_weight=3.0.
MinLineWidth == Rat(4, 10)

MaxLineWidth == Rat(30, 10)

lines_to_shapes(lines, min_weight, max_weight) ==
  [i \in DOMAIN lines |->
     [type  |-> "line",
      layer |-> "below",
      x0    |-> lines[i][1],
      y0    |-> lines[i][3],
      x1    |-> lines[i][2],
      y1    |-> lines[i][4],
      width |-> RatAdd(min_weight, RatMul(lines[i][5], max_weight))]]

\* The value find_marker_text appends to node_color for one node.
NodeColor(node, edge_type) ==
  CASE edge_type = "Send" -> DictGet(sender_fails_dict, node, 0)
    [] edge_type = "Receive" -> DictGet(receiver_fails_dict, node, 0)
    [] edge_type = "Send+Receive" -> DictGet(total_fails_dict, node, 0)

\* The caption of one node if the line of the connection were added only
\* for failures the node sent to node_a.
NodeTextOfSendFailures(node, node_a) ==
  LET my_send    == DictGet(composite_dict[node]["Send Edges"], node_a, 0)
      my_receive == DictGet(composite_dict[node]["Receive Edges"], node_a, 0)
      my_total   == DictGet(composite_dict[node]["Send+Receive Edges"], node_a, 0)
  IN  [node    |-> node,
       total   |-> DictGet(total_fails_dict, node, 0),
       send    |-> DictGet(sender_fails_dict, node, 0),
       receive |-> DictGet(receiver_fails_dict, node, 0),
       extra   |-> IF my_send > 0
                   THEN <<[node |-> node, node_a |-> node_a, total |-> my_total,
                           send |-> my_send, receive |-> my_receive]>>
                   ELSE <<>>]

\* The hover caption of one node: the fields of the first line, and in
\* extra the fields of the line '<node> <-> <node_a>: ...' when it is added.
NodeText(node, node_a) ==
  LET my_send    == DictGet(composite_dict[node]["Send Edges"], node_a, 0)
      my_receive == DictGet(composite_dict[node]["Receive Edges"], node_a, 0)
      my_total   == DictGet(composite_dict[node]["Send+Receive Edges"], node_a, 0)
  IN  [node    |-> node,
       total   |-> DictGet(total_fails_dict, node, 0),
       send    |-> DictGet(sender_fails_dict, node, 0),
       receive |-> DictGet(receiver_fails_dict, node, 0),
       extra   |-> IF my_total > 0
                   THEN <<[node |-> node, node_a |-> node_a, total |-> my_total,
                           send |-> my_send, receive |-> my_receive]>>
                   ELSE <<>>]

\* find_marker_text raises: the loop over 'Node Names' meets an edge type
\* it does not know, or a node without the three edge dicts in
\* composite_dict.  Without a node the loop body does not run.
FindMarkerTextRaises(node_names, edge_type) ==
  \E node \in Range(node_names) :
    \/ edge_type \notin Range(edge_types)
    \/ node \notin DOMAIN composite_dict
    \/ {"Send Edges", "Receive Edges", "Send+Receive Edges"}
          \ (DOMAIN composite_dict[node]) # {}

\* find_marker_text if it went through the nodes in the order of the keys
\* of total_fails_dict and not in that of 'Node Names'.
find_marker_text_by_total_fails(node_names, node_a, edge_type) ==
  LET keys == DictKeySeq(total_fails_dict)
  IN  [node_text  |-> [i \in DOMAIN keys |-> NodeText(keys[i], node_a)],
       node_color |-> [i \in DOMAIN keys |-> NodeColor(keys[i], edge_type)]]

\* find_marker_text(node_a, edge_type): [node_text, node_color]
find_marker_text(node_names, node_a, edge_type) ==
  [node_text  |-> [i \in DOMAIN node_names |-> NodeText(node_names[i], node_a)],
   node_color |-> [i \in DOMAIN node_names |-> NodeColor(node_names[i], edge_type)]]

\* The entry plot_data[n][edge_type].
PlotEntry(node_names, n, edge_type) ==
  LET info   == find_edge_info(n, edge_type)
      marker == find_marker_text(node_names, n, edge_type)
  IN  [edge_coordinates |-> info.edge_coordinates,
       line_data        |-> info.line_data,
       shape_data       |-> lines_to_shapes(info.line_data, MinLineWidth, MaxLineWidth),
       weights          |-> info.weights,
       node_text        |-> marker.node_text,
       node_color       |-> marker.node_color]

CalcPlotDataRaises ==
  \/ \E n \in Range(unique_nodes) : n \notin DictKeys(node_positions)
  \/ \E n \in Range(unique_nodes) : \E i \in DOMAIN edge_types :
        \/ n \notin DOMAIN composite_dict
        \/ EdgesKey(edge_types[i]) \notin DOMAIN composite_dict[n]
        \/ FindEdgeInfoRaises(n, edge_types[i])
        \/ FindMarkerTextRaises(unique_nodes, edge_types[i])

calc_plot_data ==
  LET names == unique_nodes
      temp_x == [i \in DOMAIN names |-> DictGet(node_positions, names[i], <<>>)[1]]
      temp_y == [i \in DOMAIN names |-> DictGet(node_positions, names[i], <<>>)[2]]
  IN  [key \in {"Node Names", "Node Coordinates"} \cup Range(names) |->
         CASE key = "Node Names" -> names
           [] key = "Node Coordinates" -> <<temp_x, temp_y>>
           [] OTHER -> [edge_type \in Range(edge_types) |->
                          PlotEntry(names, key, edge_type)]]

CalcPlotData ==
  /\ pc = "laid_out"
  /\ IF CalcPlotDataRaises
     THEN /\ pc' = "raised"
          /\ UNCHANGED plot_data
     ELSE /\ pc' = "done"
          /\ plot_data' = calc_plot_data
  /\ UNCHANGED <<log_file, max_lines, reader_vars, network_vars, node_positions, ui_vars, call_vars>>

Next ==
  \/ ReadLogFile
  \/ InitializeNetwork
  \/ LayoutNetwork
  \/ CalcPlotData

Spec == Init /\ [][Next]_vars

\* ------------------------------------------------------------------------
\* The plotting script and NetworkLogPlotter: plot_network3, update_figure,
\* make_widgets and the handlers of the widgets
\* ------------------------------------------------------------------------
\* f'Num of Failures<br>{edge_type}'
ColorbarTitle(edge_type) == <<"Num of Failures<br>", edge_type>>

\* f'Interactive Graph of Network Failures<br>Selected Node: {plot_node}'
FigureTitle(plot_node) ==
  <<"Interactive Graph of Network Failures<br>Selected Node: ", plot_node>>

\* plot_network3(nlr, plot_node, edge_type): create_scatter and
\* create_figure on the precomputed entry of plot_data.
plot_network3(plot_node, edge_type) ==
  [x              |-> plot_data["Node Coordinates"][1],
   y              |-> plot_data["Node Coordinates"][2],
   text           |-> plot_data[plot_node][edge_type]["node_text"],
   color          |-> plot_data[plot_node][edge_type]["node_color"],
   colorbar_title |-> ColorbarTitle(edge_type),
   title          |-> FigureTitle(plot_node),
   shapes         |-> plot_data[plot_node][edge_type]["shape_data"]]

\* update_figure if it left the layout shapes of the figure as they were.
update_figure_keeping_shapes(f, plot_node, edge_type) ==
  [f EXCEPT !.text           = plot_data[plot_node][edge_type]["node_text"],
            !.color          = plot_data[plot_node][edge_type]["node_color"],
            !.colorbar_title = ColorbarTitle(edge_type),
            !.title          = FigureTitle(plot_node)]

\* update_figure(fig, nlr, plot_node, edge_type)
update_figure(f, plot_node, edge_type) ==
  [f EXCEPT !.text           = plot_data[plot_node][edge_type]["node_text"],
            !.color          = plot_data[plot_node][edge_type]["node_color"],
            !.colorbar_title = ColorbarTitle(edge_type),
            !.title          = FigureTitle(plot_node),
            !.shapes         = plot_data[plot_node][edge_type]["shape_data"]]

\* node_names = list(nlr.unique_nodes); Python indexes from 0.
node_names == unique_nodes

NodeName(index) == node_names[index + 1]

\* The widgets and the figure the handlers close over, as one value.
Widgets == [fig |-> fig, slider |-> slider, slider_label |-> slider_label,
            drop |-> drop, drop_label |-> drop_label]

\* on_slider_value_change if it drew the scatter trace again, with the
\* selected node alone.
on_slider_value_change_redrawing(w, new_node_number) ==
  LET new_node_name == NodeName(new_node_number)
      f == update_figure(w.fig, new_node_name, w.drop.value)
  IN  [w EXCEPT !.slider_label = <<"Node Name: ", new_node_name>>,
                !.fig = [f EXCEPT !.x = <<f.x[new_node_number + 1]>>,
                                  !.y = <<f.y[new_node_number + 1]>>]]

\* on_slider_value_change(change), with change['new'] = new_node_number.
on_slider_value_change(w, new_node_number) ==
  LET new_node_name == NodeName(new_node_number)
  IN  [w EXCEPT !.slider_label = <<"Node Name: ", new_node_name>>,
                !.fig = update_figure(w.fig, new_node_name, w.drop.value)]

\* on_drop_value_change if it took the first node and not the node of the
\* slider.
on_drop_value_change_of_first_node(w, new_edge_type) ==
  LET node_name == NodeName(0)
  IN  [w EXCEPT !.drop_label = <<"Error Type:  ", new_edge_type>>,
                !.fig = update_figure(w.fig, node_name, new_edge_type)]

\* on_drop_value_change(change), with change['new'] = new_edge_type.
on_drop_value_change(w, new_edge_type) ==
  LET node_name == NodeName(w.slider.value)
  IN  [w EXCEPT !.drop_label = <<"Error Type:  ", new_edge_type>>,
                !.fig = update_figure(w.fig, node_name, new_edge_type)]

\* The value an IntSlider keeps of a proposed value: held within [min, max].
BoundedValue(value, min, max) == Min(Max(value, min), max)

\* slider.value = value: the observer runs only if the value changes.
SetSliderValue(w, value) ==
  LET kept == BoundedValue(value, w.slider.min, w.slider.max)
  IN  IF kept = w.slider.value THEN w
      ELSE on_slider_value_change([w EXCEPT !.slider.value = kept], kept)

\* drop.value = value: the observer runs only if the value changes.
SetDropValue(w, value) ==
  IF value = w.drop.value THEN w
  ELSE on_drop_value_change([w EXCEPT !.drop.value = value], value)

\* update_point if it took the index of the point as a count from 1.
update_point_from_one(w, node_id) == SetSliderValue(w, node_id - 1)

\* update_point(trace, points, selector), with points.point_inds[0] = node_id.
update_point(w, node_id) == SetSliderValue(w, node_id)

\* make_widgets(nlr, fig): the widgets as created, then the two
\* initialisation assignments.
make_widgets(f) ==
  LET num_nodes == Len(node_names)
      created == [fig          |-> f,
                  slider       |-> [min |-> 0, max |-> num_nodes - 1,
                                    value |-> BoundedValue(1, 0, num_nodes - 1)],
                  slider_label |-> <<"Node Name: ">>,
                  drop         |-> [options |-> edge_types, value |-> edge_types[2]],
                  drop_label   |-> <<"Error Type: ">>]
  IN  SetDropValue(SetSliderValue(created, 0), edge_types[3])

\* IntSlider(min=0, max=num_nodes - 1) raises for max < min.
MakeWidgetsRaises == Len(node_names) - 1 < 0

SetWidgets(w) ==
  /\ fig' = w.fig
  /\ slider' = w.slider
  /\ slider_label' = w.slider_label
  /\ drop' = w.drop
  /\ drop_label' = w.drop_label

reader_state == <<pc, log_file, max_lines, reader_vars, network_vars,
                  node_positions, plot_data>>

\* The script: the reader is constructed with max_lines=None.
ConstructReader == read_log_file(NoLimit)

\* The script after the reader: plot_node = nlr.receiver_fails_name[0],
\* edge_type = 'Send+Receive', fig01 = nlp.plot_network3(...).
PlotNetwork3 ==
  /\ pc = "done"
  /\ ui_pc = "none"
  /\ IF receiver_fails_name = <<>>
     THEN /\ ui_pc' = "raised"
          /\ UNCHANGED fig
     ELSE /\ ui_pc' = "plotted"
          /\ fig' = plot_network3(receiver_fails_name[1], "Send+Receive")
  /\ UNCHANGED <<reader_state, slider, slider_label, drop, drop_label, call_vars>>

MakeWidgets ==
  /\ ui_pc = "plotted"
  /\ IF MakeWidgetsRaises
     THEN /\ ui_pc' = "raised"
          /\ UNCHANGED <<fig, slider, slider_label, drop, drop_label>>
     ELSE /\ ui_pc' = "widgets"
          /\ SetWidgets(make_widgets(fig))
  /\ UNCHANGED <<reader_state, call_vars>>

\* The user moves the slider to a value of its range.
SliderChange ==
  /\ ui_pc = "widgets"
  /\ \E value \in slider.min..slider.max : SetWidgets(SetSliderValue(Widgets, value))
  /\ UNCHANGED <<reader_state, ui_pc, call_vars>>

\* The user picks an option of the dropdown.
DropChange ==
  /\ ui_pc = "widgets"
  /\ \E value \in Range(drop.options) : SetWidgets(SetDropValue(Widgets, value))
  /\ UNCHANGED <<reader_state, ui_pc, call_vars>>

\* The user clicks a point of the scatter trace.
ScatterClick ==
  /\ ui_pc = "widgets"
  /\ \E node_id \in 0..(Len(fig.x) - 1) : SetWidgets(update_point(Widgets, node_id))
  /\ UNCHANGED <<reader_state, ui_pc, call_vars>>

NextUI ==
  \/ ConstructReader
  \/ InitializeNetwork
  \/ LayoutNetwork
  \/ CalcPlotData
  \/ PlotNetwork3
  \/ MakeWidgets
  \/ SliderChange
  \/ DropChange
  \/ ScatterClick

\* The logs given to the script: every row records at least one failure.
ErrorLogFiles == {l \in LogFiles : \A i \in DOMAIN l : l[i].fails > 0}

InitUI == Init /\ log_file \in ErrorLogFiles

SpecUI == InitUI /\ [][NextUI]_vars

\* ------------------------------------------------------------------------
\* Methods of the reader called from outside, on a reader that is built:
\* find_edge_info, find_marker_text, layout_network and square_layout
\* ------------------------------------------------------------------------
\* A name that is no node of the modelled logs.
UnknownNode == "10.0.0.77"

\* An edge type that find_marker_text does not know.
UnknownEdgeType == "Total"

\* The outcome of a call: an exception, or the value returned.
Raises(exception) == [raised |-> TRUE, exception |-> exception, value |-> <<>>]

Returns(value) == [raised |-> FALSE, exception |-> "", value |-> value]

\* The call of a method by its name, with its arguments and the results
\* random.uniform gave during the call.
Call(name, args, random) == [name |-> name, args |-> args, random |-> random]

reader_attributes == <<pc, log_file, max_lines, reader_vars, network_vars, plot_data>>

\* The reader is built and no method has been called on it from outside yet:
\* each run of the model makes one such call.
ReadyForCall == pc = "done" /\ call = Unset

\* nlr.find_edge_info(node_a, edge_type) with an edge type of edge_types.
FindEdgeInfoCall ==
  /\ ReadyForCall
  /\ \E node_a \in Nodes \cup {UnknownNode}, edge_type \in Range(edge_types) :
       /\ call' = Call("find_edge_info", <<node_a, edge_type>>, <<>>)
       /\ returned' =
            IF node_a \notin DictKeys(node_positions)
            THEN Raises("Exception")
            ELSE IF FindEdgeInfoRaises(node_a, edge_type)
                 THEN Raises("KeyError")
                 ELSE Returns(find_edge_info(node_a, edge_type))
  /\ UNCHANGED <<reader_attributes, node_positions, ui_vars>>

\* nlr.find_marker_text(node_a, edge_type)
FindMarkerTextCall ==
  /\ ReadyForCall
  /\ \E node_a \in Nodes \cup {UnknownNode},
        edge_type \in Range(edge_types) \cup {UnknownEdgeType} :
       /\ call' = Call("find_marker_text", <<node_a, edge_type>>, <<>>)
       /\ returned' =
            IF FindMarkerTextRaises(plot_data["Node Names"], edge_type)
            THEN Raises("Exception")
            ELSE Returns(find_marker_text(plot_data["Node Names"], node_a, edge_type))
  /\ UNCHANGED <<reader_attributes, node_positions, ui_vars>>

\* nlr.layout_network(order_by_ip, rectangular_grid)
LayoutNetworkCall ==
  /\ ReadyForCall
  /\ \E order_by_ip \in BOOLEAN, rectangular_grid \in BOOLEAN, stream \in RandomStreams :
       /\ call' = Call("layout_network", <<order_by_ip, rectangular_grid>>, stream)
       /\ IF rectangular_grid /\ SquareLayoutRaises(send_graph)
          THEN /\ returned' = Raises("StopIteration")
               /\ UNCHANGED node_positions
          ELSE /\ returned' = Returns(<<>>)
               /\ node_positions' = layout_network(order_by_ip, rectangular_grid, stream)
  /\ UNCHANGED <<reader_attributes, ui_vars>>

\* Names of the nodes of the graphs handed to square_layout on its own.
GridNodeNames ==
  <<"10.0.0.9", "10.0.0.2", "10.0.1.1", "10.0.0.10", "10.0.0.100", "10.0.0.11">>

\* The graph of the first node_count names, without edges.
GridGraph(node_count) ==
  [i \in 1..node_count |-> <<GridNodeNames[i], <<>>>>]

\* Streams of as many random results as node_count coordinates take.
GridStreams(node_count) ==
  {[i \in 1..(2 * node_count) |-> IF i % 2 = 1 THEN first ELSE 0 - first] :
     first \in RandomSamples}

\* NetworkLogReader.square_layout(net_graph, noise=0.15) on a graph of 1 to
\* MaxNodes nodes.
SquareLayoutCall ==
  /\ ReadyForCall
  /\ \E node_count \in 1..MaxNodes : \E stream \in GridStreams(node_count) :
       /\ call' = Call("square_layout", <<node_count>>, stream)
       /\ returned' =
            IF SquareLayoutRaises(GridGraph(node_count))
            THEN Raises("StopIteration")
            ELSE Returns(square_layout(GridGraph(node_count), Noise, stream))
  /\ UNCHANGED <<reader_attributes, node_positions, ui_vars>>

NextCalls ==
  \/ ConstructReader
  \/ InitializeNetwork
  \/ LayoutNetwork
  \/ CalcPlotData
  \/ FindEdgeInfoCall
  \/ FindMarkerTextCall
  \/ LayoutNetworkCall
  \/ SquareLayoutCall

SpecCalls == InitUI /\ [][NextCalls]_vars

\* ------------------------------------------------------------------------
\* Properties
\* ------------------------------------------------------------------------
AfterRead == pc \in {"read", "initialized", "laid_out", "done"}

AfterInitialize == pc \in {"initialized", "laid_out", "done"}

AfterLayout == pc \in {"laid_out", "done"}

\* Sum of f[i] over the indices i in S.
RECURSIVE SumOver(_, _)
SumOver(S, f) ==
  IF S = {} THEN 0
  ELSE LET i == CHOOSE x \in S : TRUE IN f[i] + SumOver(S \ {i}, f)

\* Total of the fails of the used rows whose column col is n.
UsedTotal(col, n) ==
  SumOver({i \in DOMAIN panda_df : panda_df[i][col] = n},
          [i \in DOMAIN panda_df |-> panda_df[i].fails])

UsedNames(col) == {panda_df[i][col] : i \in DOMAIN panda_df}

\* C1: after read_log_file, sender_fails_dict[n] is the sum of the fails of
\* the used rows whose sender is n, receiver_fails_dict[n] the sum over the
\* used rows whose receiver is n, and a node that never sends (receives) has
\* no entry in the sender (receiver) dict, so that a lookup with default 0
\* yields 0.
C1_FailsDictsAreColumnSums ==
  AfterRead =>
    \A n \in Nodes :
      /\ (n \in DictKeys(sender_fails_dict)) <=> (n \in UsedNames("sender"))
      /\ (n \in DictKeys(receiver_fails_dict)) <=> (n \in UsedNames("receiver"))
      /\ DictGet(sender_fails_dict, n, 0) = UsedTotal("sender", n)
      /\ DictGet(receiver_fails_dict, n, 0) = UsedTotal("receiver", n)
      /\ Cardinality({i \in DOMAIN sender_fails_dict : sender_fails_dict[i][1] = n}) <= 1
      /\ Cardinality({i \in DOMAIN receiver_fails_dict : receiver_fails_dict[i][1] = n}) <= 1

\* A node that sends two rows of one fail each, and a node that only receives.
C1_Witness ==
  /\ pc = "read"
  /\ Len(panda_df) = 2
  /\ DictGet(sender_fails_dict, "10.0.0.9", 0) = 2
  /\ "10.0.0.10" \notin DictKeys(sender_fails_dict)
  /\ DictGet(receiver_fails_dict, "10.0.0.10", 0) = 1

\* The numeric value of the four octets of the modelled addresses.
AddressValue(n) ==
  CASE n = "10.0.0.2"  -> ((10 * 256 + 0) * 256 + 0) * 256 + 2
    [] n = "10.0.0.9"  -> ((10 * 256 + 0) * 256 + 0) * 256 + 9
    [] n = "10.0.0.10" -> ((10 * 256 + 0) * 256 + 0) * 256 + 10

\* C2: after read_log_file, unique_nodes lists exactly the addresses that
\* are sender or receiver of a used row, each once, in strictly increasing
\* IPv4 numeric order ('10.0.0.9' before '10.0.0.10').
C2_UniqueNodesSortedByAddress ==
  AfterRead =>
    /\ Range(unique_nodes) = UsedNames("sender") \cup UsedNames("receiver")
    /\ \A i, j \in DOMAIN unique_nodes :
         i < j => AddressValue(unique_nodes[i]) < AddressValue(unique_nodes[j])

\* All three addresses are in the log, '10.0.0.10' among them.
C2_Witness ==
  /\ pc = "read"
  /\ unique_nodes = <<"10.0.0.2", "10.0.0.9", "10.0.0.10">>

\* Sum of the weights of the entries from a to b.
EntryTotal(entries, a, b) ==
  SumOver({i \in DOMAIN entries : entries[i][1] = a /\ entries[i][2] = b},
          [i \in DOMAIN entries |-> entries[i][3]])

HasEntry(entries, a, b) ==
  \E i \in DOMAIN entries : entries[i][1] = a /\ entries[i][2] = b

HasEdge(G, a, b) == a \in DictKeys(G) /\ b \in DictKeys(DictGet(G, a, <<>>))

EdgeWeight(G, a, b) == DictGet(DictGet(G, a, <<>>), b, 0)

\* The graph has the edge a->b exactly for the entries (a, b, w), with the
\* sum of their weights.
GraphSumsEntries(G, entries) ==
  \A a, b \in Nodes :
    /\ HasEdge(G, a, b) <=> HasEntry(entries, a, b)
    /\ HasEdge(G, a, b) => EdgeWeight(G, a, b) = EntryTotal(entries, a, b)

SwapEntries(entries) ==
  [i \in DOMAIN entries |-> <<entries[i][2], entries[i][1], entries[i][3]>>]

\* C3: create_network_graph sums duplicate rows and keeps directions apart:
\* the graph has an edge a->b iff some entry (a, b, w) exists, and its
\* weight is the sum of w over the entries with sender a and receiver b
\* only.  Stated of both graphs initialize_network builds: the send graph
\* from the rows, the receive graph from the rows with the nodes switched.
C3_GraphSumsDuplicatesPerDirection ==
  AfterInitialize =>
    /\ GraphSumsEntries(send_graph, raw_data)
    /\ GraphSumsEntries(receive_graph, SwapEntries(raw_data))

\* Two rows with the same sender and receiver: the edge weighs their sum,
\* and the opposite edge does not exist.
C3_Witness ==
  /\ pc = "initialized"
  /\ raw_data = <<<<"10.0.0.9", "10.0.0.2", 1>>, <<"10.0.0.9", "10.0.0.2", 1>>>>
  /\ EdgeWeight(send_graph, "10.0.0.9", "10.0.0.2") = 2
  /\ ~HasEdge(send_graph, "10.0.0.2", "10.0.0.9")

CompositeKeys ==
  {"Send Errors", "Receive Errors", "Send+Receive Errors",
   "Send Edges", "Receive Edges", "Send+Receive Edges"}

\* C4: after initialize_network, composite_dict[node] has all six entries
\* for every node of unique_nodes, also for a node that only sends or only
\* receives; no stage of the constructor fails on a missing key.
C4_CompositeHasSixEntries ==
  /\ pc # "raised"
  /\ AfterInitialize =>
       /\ DOMAIN composite_dict = Range(unique_nodes)
       /\ \A n \in Range(unique_nodes) : DOMAIN composite_dict[n] = CompositeKeys

\* The constructor has finished on a log with a node that only receives and
\* a node that only sends.
C4_Witness ==
  /\ pc = "done"
  /\ "10.0.0.10" \in Range(unique_nodes)
  /\ "10.0.0.10" \notin DictKeys(sender_fails_dict)
  /\ "10.0.0.2" \in Range(unique_nodes)
  /\ "10.0.0.2" \notin DictKeys(receiver_fails_dict)
  /\ composite_dict["10.0.0.10"]["Send Edges"] = <<>>

\* C5: composite_dict[a]['Send+Receive Edges'][b] is Send Edges[a].get(b, 0)
\* + Receive Edges[a].get(b, 0), its keys are the union of the keys of the
\* two edge dicts, and building it leaves 'Send Edges' and 'Receive Edges'
\* as the graphs gave them.
C5_SendReceiveEdgesAreSums ==
  AfterInitialize =>
    \A a \in Range(unique_nodes) :
      LET S  == composite_dict[a]["Send Edges"]
          R  == composite_dict[a]["Receive Edges"]
          SR == composite_dict[a]["Send+Receive Edges"]
      IN  /\ DictKeys(SR) = DictKeys(S) \cup DictKeys(R)
          /\ Len(SR) = Cardinality(DictKeys(SR))
          /\ \A b \in DictKeys(SR) :
               DictGet(SR, b, 0) = DictGet(S, b, 0) + DictGet(R, b, 0)
          /\ S = DictGet(send_graph, a, <<>>)
          /\ R = DictGet(receive_graph, a, <<>>)

\* A node with a neighbour it both sends to and receives from.
C5_Witness ==
  /\ pc = "initialized"
  /\ "10.0.0.2" \in DOMAIN composite_dict
  /\ DictGet(composite_dict["10.0.0.2"]["Send Edges"], "10.0.0.9", 0) = 1
  /\ DictGet(composite_dict["10.0.0.2"]["Receive Edges"], "10.0.0.9", 0) = 1
  /\ DictGet(composite_dict["10.0.0.2"]["Send+Receive Edges"], "10.0.0.9", 0) = 2

\* Sum of the weights of an edge dict.
TotalWeight(d) == SumOver(DOMAIN d, [i \in DOMAIN d |-> d[i][2]])

\* C6: for every node a, 'Send Errors' equals the sum of the weights in
\* 'Send Edges', 'Receive Errors' the sum of the weights in 'Receive Edges'
\* and 'Send+Receive Errors' the sum of the weights in 'Send+Receive Edges':
\* the totals of the pivot tables agree with the edges of the graphs.
C6_ErrorsEqualSumOfEdgeWeights ==
  AfterInitialize =>
    \A a \in Range(unique_nodes) :
      /\ composite_dict[a]["Send Errors"] = TotalWeight(composite_dict[a]["Send Edges"])
      /\ composite_dict[a]["Receive Errors"] = TotalWeight(composite_dict[a]["Receive Edges"])
      /\ composite_dict[a]["Send+Receive Errors"]
           = TotalWeight(composite_dict[a]["Send+Receive Edges"])

\* A node whose two send errors go over one edge, written in two rows.
C6_Witness ==
  /\ pc = "initialized"
  /\ "10.0.0.2" \in DOMAIN composite_dict
  /\ composite_dict["10.0.0.2"]["Send Errors"] = 2
  /\ composite_dict["10.0.0.2"]["Send Edges"] = <<<<"10.0.0.10", 2>>>>

PlotEntryKeys ==
  {"edge_coordinates", "line_data", "shape_data", "weights", "node_text", "node_color"}

\* C7: after the constructor returns, plot_data has 'Node Names' and
\* 'Node Coordinates', and plot_data[n][edge_type] has all six entries for
\* every node n of unique_nodes and every edge type of 'Send', 'Receive',
\* 'Send+Receive'.
C7_PlotDataIsComplete ==
  pc = "done" =>
    /\ {"Node Names", "Node Coordinates"} \subseteq DOMAIN plot_data
    /\ \A n \in Range(unique_nodes) :
         /\ n \in DOMAIN plot_data
         /\ \A edge_type \in {"Send", "Receive", "Send+Receive"} :
              /\ edge_type \in DOMAIN plot_data[n]
              /\ DOMAIN plot_data[n][edge_type] = PlotEntryKeys

\* The constructor has returned for a log with three nodes.
C7_Witness ==
  /\ pc = "done"
  /\ Len(unique_nodes) = 3
  /\ plot_data["Node Names"] = unique_nodes

\* C8: for a log with non-negative integer fail counts, and every node and
\* edge type for which the node has an edge, the weight column of line_data
\* is normalized to range from 0 to 1: each value is the weight of the edge
\* divided by the largest weight among the node's edges of that type, every
\* value lies in [0, 1], and the largest is exactly 1.
C8_LineWeightsNormalized ==
  pc = "done" =>
    \A n \in Range(unique_nodes) : \A edge_type \in {"Send", "Receive", "Send+Receive"} :
      LET weights   == plot_data[n][edge_type]["weights"]
          line_data == plot_data[n][edge_type]["line_data"]
          largest   == CHOOSE w \in Range(weights) : \A v \in Range(weights) : v <= w
      IN  weights # <<>> =>
            /\ Len(line_data) = Len(weights)
            /\ \A i \in DOMAIN line_data :
                 /\ IsFinite(line_data[i][5])
                 /\ line_data[i][5].num * largest = weights[i] * line_data[i][5].den
                 /\ RatLeq(Rat(0, 1), line_data[i][5])
                 /\ RatLeq(line_data[i][5], Rat(1, 1))
            /\ \E i \in DOMAIN line_data : RatEq(line_data[i][5], Rat(1, 1))

\* C9: after layout_network every node of the network has exactly one 2D
\* coordinate: the keys of node_positions are the nodes of unique_nodes, each
\* once, so that no lookup of a position fails in calc_plot_data or
\* find_edge_info.
C9_EveryNodeHasOnePosition ==
  /\ pc = "laid_out" => ~CalcPlotDataRaises
  /\ AfterLayout =>
       /\ DictKeys(node_positions) = Range(unique_nodes)
       /\ Len(node_positions) = Len(unique_nodes)
       /\ \A i \in DOMAIN node_positions : Len(node_positions[i][2]) = 2

\* Positions exist for a node that only receives, next to two that send.
C9_Witness ==
  /\ pc = "laid_out"
  /\ Len(unique_nodes) = 3
  /\ "10.0.0.10" \in DictKeys(node_positions)
  /\ "10.0.0.10" \notin DictKeys(sender_fails_dict)

Abs(x) == IF x < 0 THEN 0 - x ELSE x

\* The coordinate c is the grid index g times s = 1/k, displaced by at most
\* 0.15 * s.
NearGridLine(c, g, k) ==
  /\ IsFinite(c)
  /\ Abs(c.num * k - g * c.den) * 100 <= 15 * c.den

\* C10: with rectangular_grid=True and order_by_ip=True and n nodes, the
\* i-th node in IPv4 order (0-based) is at the grid point
\* ((i mod k) * s, (i div k) * s), k = ceil(sqrt(n)), s = 1/k, displaced on
\* each axis by at most noise * s, noise = 0.15; two nodes never have the
\* same place.
C10_GridFilledRowByRowInAddressOrder ==
  AfterLayout =>
    LET n == Len(unique_nodes)
        k == CHOOSE c \in 0..n : c * c >= n /\ \A b \in 0..n : b * b >= n => c <= b
        at(i) == DictGet(node_positions, unique_nodes[i + 1], <<>>)
    IN  /\ \A i \in 0..(n - 1) :
             /\ NearGridLine(at(i)[1], i % k, k)
             /\ NearGridLine(at(i)[2], i \div k, k)
        /\ \A i, j \in 0..(n - 1) :
             i # j => ~(RatEq(at(i)[1], at(j)[1]) /\ RatEq(at(i)[2], at(j)[2]))

\* Three nodes on a grid of two by two: the third node opens the second row.
C10_Witness ==
  /\ pc = "laid_out"
  /\ Len(unique_nodes) = 3
  /\ RatLeq(DictGet(node_positions, "10.0.0.10", <<>>)[1], Rat(15, 200))
  /\ RatLeq(Rat(35, 100), DictGet(node_positions, "10.0.0.10", <<>>)[2])

AfterMakeWidgets == ui_pc = "widgets"

\* C11: after update_figure(fig, nlr, plot_node, edge_type) the hover text,
\* the marker colours and the layout shapes of the figure are the entries
\* 'node_text', 'node_color' and 'shape_data' of
\* plot_data[plot_node][edge_type], the title of the colour bar names
\* edge_type and the title of the figure names plot_node: the figure shows
\* one selection as a whole and nothing of the selection before it.
C11_FigureShowsOneSelection ==
  AfterMakeWidgets =>
    \E plot_node \in Range(unique_nodes), edge_type \in Range(edge_types) :
      /\ fig.title = FigureTitle(plot_node)
      /\ fig.colorbar_title = ColorbarTitle(edge_type)
      /\ fig.text = plot_data[plot_node][edge_type]["node_text"]
      /\ fig.color = plot_data[plot_node][edge_type]["node_color"]
      /\ fig.shapes = plot_data[plot_node][edge_type]["shape_data"]

\* The figure was updated to a node and an edge type other than those it was
\* created with, and the node has lines to draw.
C11_Witness ==
  /\ AfterMakeWidgets
  /\ fig.title # FigureTitle(receiver_fails_name[1])
  /\ fig.colorbar_title = ColorbarTitle("Send")
  /\ fig.shapes # <<>>
  /\ \E n \in Range(unique_nodes) :
       plot_data[n]["Send+Receive"]["shape_data"] # fig.shapes

AfterPlot == ui_pc \in {"plotted", "widgets"}

\* C12: no aggregation happens at interaction time: once the figure is
\* created, no step of the slider, the dropdown or a click on a point
\* modifies plot_data, composite_dict, node_positions or the fail dicts of
\* the reader (nor any other attribute of it), and the x and y of the
\* scatter trace stay as they were created.
C12_InteractionLeavesReaderAndPointsAlone ==
  [][AfterPlot =>
       /\ UNCHANGED <<reader_vars, network_vars, node_positions, plot_data>>
       /\ fig'.x = fig.x
       /\ fig'.y = fig.y]_vars

\* A slider step and a dropdown step have been taken on three points, which
\* are still at the coordinates of the reader.
C12_Witness ==
  /\ AfterMakeWidgets
  /\ slider.value = 2
  /\ drop.value = "Receive"
  /\ Len(fig.x) = 3
  /\ fig.x = plot_data["Node Coordinates"][1]
  /\ fig.y = plot_data["Node Coordinates"][2]

\* The stages of the constructor, each with the stage that follows it.
StageOrder ==
  {<<"start", "read">>, <<"read", "initialized">>,
   <<"initialized", "laid_out">>, <<"laid_out", "done">>}

\* What is set of the reader at each point of the constructor: the
\* attributes of the stages to come do not exist yet, those a stage reads have
\* been set by the stages before it.
StagesSetAttributesInOrder ==
  /\ pc \in {"start", "read", "initialized", "laid_out", "done"}
  /\ pc = "start" => /\ reader_vars = <<Unset, Unset, Unset, Unset, Unset, Unset,
                                          Unset, Unset, Unset, Unset, Unset, Unset>>
                      /\ max_lines = NoLimit
  /\ pc \in {"start", "read"} => network_vars = <<Unset, Unset, Unset>>
  /\ pc \in {"start", "read", "initialized"} => node_positions = Unset
  /\ pc \in {"start", "read", "initialized", "laid_out"} => plot_data = Unset
  /\ AfterRead => /\ panda_df = log_file
                   /\ Len(raw_data) = Len(log_file)
                   /\ Range(unique_nodes) = UsedNames("sender") \cup UsedNames("receiver")
  /\ AfterInitialize => /\ Range(GraphNodes(send_graph)) = Range(unique_nodes)
                         /\ DOMAIN composite_dict = Range(unique_nodes)
  /\ AfterLayout => DictKeys(node_positions) = Range(unique_nodes)
  /\ pc = "done" => plot_data["Node Names"] = unique_nodes
  /\ pc # "done" => ui_pc = "none" /\ fig = Unset

\* C13: the constructor of the reader runs read_log_file,
\* initialize_network, layout_network and calc_plot_data once each and in
\* this order, none of them fails, each stage finds set the attributes it
\* reads and the plotting starts only when the four stages are over.
C13_ConstructorRunsStagesInOrder ==
  /\ []StagesSetAttributesInOrder
  /\ [][/\ pc' # pc => <<pc, pc'>> \in StageOrder
        /\ ui_vars' # ui_vars => pc = "done" /\ pc' = "done"]_vars

\* The constructor is over on a log of two rows and three nodes, and nothing
\* is plotted yet.
C13_Witness ==
  /\ pc = "done"
  /\ ui_pc = "none"
  /\ Len(log_file) = 2
  /\ Len(plot_data["Node Names"]) = 3
  /\ Len(node_positions) = 3

\* The last count rows of the log, all of them if the log has fewer.
LastRows(count) ==
  LET kept == Min(Max(count, 0), Len(log_file))
  IN  SubSeq(log_file, Len(log_file) - kept + 1, Len(log_file))

\* C14: read_log_file with an integer max_lines uses only the last
\* max_lines rows of the log (all rows when the log has fewer), for every
\* integer value; with max_lines=None it uses all rows.
C14_OnlyLastMaxLinesRowsUsed ==
  AfterRead =>
    panda_df = IF max_lines = NoLimit THEN log_file ELSE LastRows(max_lines[1])

PositionOf(n) == DictGet(node_positions, n, <<>>)

\* C15: every row of the line_data of find_edge_info has the form
\* [x0, y0, x1, y1, weight], with (x0, y0) the position of the selected
\* node and (x1, y1) the position of the neighbour at the other end of the
\* edge.
C15_LineDataRowsAreX0Y0X1Y1 ==
  pc = "done" =>
    \A n \in Range(unique_nodes), edge_type \in Range(edge_types) :
      LET edge == composite_dict[n][EdgesKey(edge_type)]
          line_data == plot_data[n][edge_type]["line_data"]
      IN  /\ Len(line_data) = Len(edge)
          /\ \A i \in DOMAIN line_data :
               /\ Len(line_data[i]) = 5
               /\ line_data[i][1] = PositionOf(n)[1]
               /\ line_data[i][2] = PositionOf(n)[2]
               /\ line_data[i][3] = PositionOf(edge[i][1])[1]
               /\ line_data[i][4] = PositionOf(edge[i][1])[2]

\* The line '<n> <-> <a>: Total=.., Send=.., Receive=..' with the numbers of
\* the log: Send the errors n sent to a, Receive the errors a sent to n.
ConnectionLine(n, a) ==
  [node    |-> n,
   node_a  |-> a,
   total   |-> EntryTotal(raw_data, n, a) + EntryTotal(raw_data, a, n),
   send    |-> EntryTotal(raw_data, n, a),
   receive |-> EntryTotal(raw_data, a, n)]

\* The log has a row between n and a, in either direction.
HasConnection(n, a) == HasEntry(raw_data, n, a) \/ HasEntry(raw_data, a, n)

\* The caption of the i-th node in the node_text of the selected node a.
CaptionOf(a, edge_type, i) == plot_data[a][edge_type]["node_text"][i]

\* C16 as stated: in the node_text of a selected node a, the caption of n
\* has the extra line of the connection for every node n with a row between
\* n and a in either direction in the log, and for no other node; the line
\* gives Send, Receive and Total as the log has them.
C16_ExtraLineForEveryConnection ==
  pc = "done" =>
    \A a \in Range(unique_nodes), edge_type \in Range(edge_types) :
      \A i \in DOMAIN unique_nodes :
        LET n == unique_nodes[i]
        IN  CaptionOf(a, edge_type, i).extra =
              IF HasConnection(n, a) THEN <<ConnectionLine(n, a)>> ELSE <<>>

\* C16: in the node_text of a selected node a, the caption of n has the
\* extra line '<n> <-> <a>: Total=.., Send=.., Receive=..' for every node n
\* with at least one failure recorded between n and a in either direction
\* (Total > 0), and for no other node; Send is the errors n sent to a,
\* Receive the errors a sent to n and Total their sum.
C16_ExtraLineForEveryFailingConnection ==
  pc = "done" =>
    \A a \in Range(unique_nodes), edge_type \in Range(edge_types) :
      \A i \in DOMAIN unique_nodes :
        LET n == unique_nodes[i]
        IN  CaptionOf(a, edge_type, i).extra =
              IF ConnectionLine(n, a).total > 0
              THEN <<ConnectionLine(n, a)>> ELSE <<>>

\* Selected 10.0.0.9: 10.0.0.2 only received failures from it and has the
\* line, 10.0.0.10 has a row with 0 fails to it and has none.
C16_Witness ==
  /\ pc = "done"
  /\ unique_nodes = <<"10.0.0.2", "10.0.0.9", "10.0.0.10">>
  /\ CaptionOf("10.0.0.9", "Send", 1).extra =
       <<[node |-> "10.0.0.2", node_a |-> "10.0.0.9", total |-> 1,
          send |-> 0, receive |-> 1]>>
  /\ HasConnection("10.0.0.10", "10.0.0.9")
  /\ CaptionOf("10.0.0.9", "Send", 3).extra = <<>>

\* The fails of the log the colour of node n stands for under edge_type.
LogColor(n, edge_type) ==
  CASE edge_type = "Send" -> UsedTotal("sender", n)
    [] edge_type = "Receive" -> UsedTotal("receiver", n)
    [] edge_type = "Send+Receive" -> UsedTotal("sender", n) + UsedTotal("receiver", n)

\* C17: for every selected node and edge type, node_text and node_color
\* have len(plot_data['Node Names']) entries each, as have the two
\* coordinate tuples of plot_data['Node Coordinates'], and entry i of the
\* four describes the node plot_data['Node Names'][i]: its caption, its
\* colour value, its x and its y.
C17_PerNodeListsAreAligned ==
  pc = "done" =>
    LET names == plot_data["Node Names"]
        coordinates == plot_data["Node Coordinates"]
    IN  /\ Len(coordinates[1]) = Len(names)
        /\ Len(coordinates[2]) = Len(names)
        /\ \A i \in DOMAIN names :
             /\ coordinates[1][i] = PositionOf(names[i])[1]
             /\ coordinates[2][i] = PositionOf(names[i])[2]
        /\ \A a \in Range(names), edge_type \in Range(edge_types) :
             LET entry == plot_data[a][edge_type]
             IN  /\ Len(entry["node_text"]) = Len(names)
                 /\ Len(entry["node_color"]) = Len(names)
                 /\ \A i \in DOMAIN names :
                      /\ entry["node_text"][i].node = names[i]
                      /\ entry["node_color"][i] = LogColor(names[i], edge_type)

\* Three nodes of which the one with the most failures is not the first in
\* address order, and the colours of 'Receive' tell them apart.
C17_Witness ==
  /\ pc = "done"
  /\ plot_data["Node Names"] = <<"10.0.0.2", "10.0.0.9", "10.0.0.10">>
  /\ plot_data["10.0.0.2"]["Receive"]["node_color"] = <<0, 0, 2>>
  /\ DictKeySeq(total_fails_dict)[1] # "10.0.0.2"

\* The figure shows the precomputed data of (plot_node, edge_type).
FigureShows(f, plot_node, edge_type) ==
  /\ f.title = FigureTitle(plot_node)
  /\ f.colorbar_title = ColorbarTitle(edge_type)
  /\ f.text = plot_data[plot_node][edge_type]["node_text"]
  /\ f.color = plot_data[plot_node][edge_type]["node_color"]
  /\ f.shapes = plot_data[plot_node][edge_type]["shape_data"]

\* C18: for any network with at least one node, when make_widgets returns
\* the initialisation assignments have invoked both handlers: the slider is
\* at 0 and its label reads 'Node Name: <node_names[0]>', the dropdown is
\* at 'Send+Receive' and its label reads 'Error Type:  Send+Receive', and
\* the figure shows node_names[0] with the edge type 'Send+Receive'.
C18_InitialisationInvokesBothHandlers ==
  [][(ui_pc = "plotted" /\ ui_pc' = "widgets" /\ Len(node_names) >= 1) =>
       /\ slider'.value = 0
       /\ slider_label' = <<"Node Name: ", NodeName(0)>>
       /\ drop'.value = "Send+Receive"
       /\ drop_label' = <<"Error Type:  ", "Send+Receive">>
       /\ FigureShows(fig', NodeName(0), "Send+Receive")]_vars

\* C19: the figure stays in sync with the controls: in every state after
\* make_widgets returns, through any sequence of slider changes, dropdown
\* changes and clicks on points, the node and the edge type whose
\* precomputed data the figure shows are node_names[slider.value] and
\* drop.value.
C19_FigureInSyncWithControls ==
  AfterMakeWidgets =>
    /\ slider.value \in 0..(Len(node_names) - 1)
    /\ drop.value \in Range(edge_types)
    /\ FigureShows(fig, NodeName(slider.value), drop.value)

\* The slider was moved to the second of three nodes and the dropdown to
\* 'Send'; the labels have followed.
C19_Witness ==
  /\ AfterMakeWidgets
  /\ Len(node_names) = 3
  /\ slider.value = 1
  /\ drop.value = "Send"
  /\ slider_label = <<"Node Name: ", "10.0.0.9">>
  /\ drop_label = <<"Error Type:  ", "Send">>
  /\ fig.title = FigureTitle("10.0.0.9")

\* The counts are in non-increasing order, one per name, each the total of
\* its name in column col of the used rows.
SortedAndAligned(names, counts, col) ==
  /\ Len(names) = Len(counts)
  /\ Range(names) = UsedNames(col)
  /\ \A i, j \in DOMAIN names : i # j => names[i] # names[j]
  /\ \A i \in DOMAIN names : counts[i] = UsedTotal(col, names[i])
  /\ \A i \in DOMAIN counts : i < Len(counts) => counts[i] >= counts[i + 1]

\* C20: sender_fails_count and receiver_fails_count are in non-increasing
\* order and index-aligned with sender_fails_name and receiver_fails_name
\* (name[i] is the node whose total is count[i]); receiver_fails_name[0],
\* the node of the first plot, is a node with the largest receive total, and
\* the input of plot_cumulative_errors is in descending order.
C20_FailCountsDescendingAndAligned ==
  AfterRead =>
    /\ SortedAndAligned(sender_fails_name, sender_fails_count, "sender")
    /\ SortedAndAligned(receiver_fails_name, receiver_fails_count, "receiver")
    /\ receiver_fails_name # <<>> =>
         \A n \in Nodes :
           UsedTotal("receiver", receiver_fails_name[1]) >= UsedTotal("receiver", n)

\* The sort has moved the receiver with the failures before one without,
\* against the order of the index of the pivot table.
C20_Witness ==
  /\ pc = "read"
  /\ receiver_fails_name = <<"10.0.0.9", "10.0.0.10">>
  /\ receiver_fails_count = <<1, 0>>
  /\ sender_fails_count = <<1, 0>>

\* The weight w is a number of the range from 0 to 1.
IsNormalized(w) == RatLeq(Rat(0, 1), w) /\ RatLeq(w, Rat(1, 1))

\* C21: for line weights normalized to [0, 1], the width of every line
\* shape of lines_to_shapes is at least min_weight and at most max_weight
\* (0.4 and 3.0 with the defaults).
C21_ShapeWidthWithinMinAndMax ==
  pc = "done" =>
    \A n \in Range(unique_nodes), edge_type \in Range(edge_types) :
      LET line_data == plot_data[n][edge_type]["line_data"]
          shape_data == plot_data[n][edge_type]["shape_data"]
      IN  /\ Len(shape_data) = Len(line_data)
          /\ \A i \in DOMAIN shape_data :
               IsNormalized(line_data[i][5]) =>
                 /\ RatLeq(MinLineWidth, shape_data[i].width)
                 /\ RatLeq(shape_data[i].width, MaxLineWidth)

\* The dict composite_dict[a][key] has the key b.
HasCompositeEdge(a, key, b) == b \in DictKeys(composite_dict[a][key])

CompositeEdge(a, key, b) == DictGet(composite_dict[a][key], b, 0)

\* C22: switching the node order turns send errors into receive errors:
\* for all nodes a and b, composite_dict[a]['Send Edges'] has the key b iff
\* composite_dict[b]['Receive Edges'] has the key a, with the same weight,
\* and 'Send+Receive Edges' is symmetric in a and b.
C22_SendEdgesMirrorReceiveEdges ==
  AfterInitialize =>
    \A a, b \in Range(unique_nodes) :
      /\ HasCompositeEdge(a, "Send Edges", b) <=> HasCompositeEdge(b, "Receive Edges", a)
      /\ CompositeEdge(a, "Send Edges", b) = CompositeEdge(b, "Receive Edges", a)
      /\ HasCompositeEdge(a, "Send+Receive Edges", b)
           <=> HasCompositeEdge(b, "Send+Receive Edges", a)
      /\ CompositeEdge(a, "Send+Receive Edges", b)
           = CompositeEdge(b, "Send+Receive Edges", a)

\* 10.0.0.2 sent two rows of failures to 10.0.0.9 and received none from it.
C22_Witness ==
  /\ pc = "initialized"
  /\ "10.0.0.2" \in DOMAIN composite_dict
  /\ "10.0.0.9" \in DOMAIN composite_dict
  /\ CompositeEdge("10.0.0.2", "Send Edges", "10.0.0.9") = 2
  /\ ~HasCompositeEdge("10.0.0.2", "Receive Edges", "10.0.0.9")
  /\ CompositeEdge("10.0.0.9", "Receive Edges", "10.0.0.2") = 2
  /\ CompositeEdge("10.0.0.9", "Send+Receive Edges", "10.0.0.2") = 2

\* The step is a click on the point node_id of the scatter trace.
IsClickOn(node_id) ==
  /\ ui_pc = "widgets"
  /\ SetWidgets(update_point(Widgets, node_id))

\* C25: a click on the scatter point i selects the node drawn at that
\* point: update_point sets the slider to i and the figure shows
\* node_names[i], the node plot_data['Node Names'][i] whose coordinates are
\* drawn at index i, with the edge type of the dropdown; the dropdown is
\* left as it is, and a click on the point already selected changes
\* nothing.
C25_ClickSelectsTheNodeAtThePoint ==
  /\ [](AfterMakeWidgets => update_point(Widgets, slider.value) = Widgets)
  /\ [][\A i \in 0..(Len(node_names) - 1) :
          IsClickOn(i) =>
            /\ slider'.value = i
            /\ slider_label' = <<"Node Name: ", plot_data["Node Names"][i + 1]>>
            /\ FigureShows(fig', plot_data["Node Names"][i + 1], drop.value)
            /\ fig'.x[i + 1] = PositionOf(node_names[i + 1])[1]
            /\ fig'.y[i + 1] = PositionOf(node_names[i + 1])[2]
            /\ drop' = drop
            /\ drop_label' = drop_label]_vars

\* The third point was clicked while the dropdown was at 'Send': the figure
\* shows the third node in address order, at whose place the point is.
C25_Witness ==
  /\ AfterMakeWidgets
  /\ Len(node_names) = 3
  /\ slider.value = 2
  /\ drop.value = "Send"
  /\ FigureShows(fig, "10.0.0.10", "Send")
  /\ fig.x[3] = PositionOf("10.0.0.10")[1]
  /\ fig.y[3] = PositionOf("10.0.0.10")[2]

\* The method name was called from outside.
Called(name) == call # Unset /\ call.name = name

\* C23: square_layout never runs out of grid cells: for every graph with
\* n >= 1 nodes the generator can yield ceil(sqrt(n))^2 >= n coordinates, so
\* next() never raises StopIteration, every node receives a coordinate and
\* the dict returned has exactly n entries.
C23_SquareLayoutNeverRunsOutOfCells ==
  /\ Called("square_layout") =>
       LET node_count == call.args[1]
           cells == CeilSqrt(node_count) * CeilSqrt(node_count)
       IN  /\ node_count >= 1
           /\ cells >= node_count
           /\ ~returned.raised
           /\ Len(returned.value) = node_count
           /\ DictKeys(returned.value) = Range(GraphNodes(GridGraph(node_count)))
           /\ \A i \in DOMAIN returned.value :
                /\ Len(returned.value[i][2]) = 2
                /\ IsFinite(returned.value[i][2][1])
                /\ IsFinite(returned.value[i][2][2])
  /\ Called("layout_network") => ~returned.raised
  /\ AfterLayout => Len(node_positions) = Len(unique_nodes)

\* Four nodes fill the grid of two by two to its last cell.
C23_Witness ==
  /\ Called("square_layout")
  /\ call.args = <<4>>
  /\ CeilSqrt(4) * CeilSqrt(4) = 4
  /\ ~returned.raised
  /\ Len(returned.value) = 4

\* The dict the layout routine of the call returned, before any re-ordering.
AssignedByLayout == layout_network(FALSE, call.args[2], call.random)

\* The two position dicts have the same keys and the same values, each value
\* as many times in the one as in the other.
SameKeysAndValues(d1, d2) ==
  /\ Len(d1) = Len(d2)
  /\ DictKeys(d1) = DictKeys(d2)
  /\ \A i \in DOMAIN d1 :
       Cardinality({j \in DOMAIN d1 : d1[j][2] = d1[i][2]})
         = Cardinality({j \in DOMAIN d2 : d2[j][2] = d1[i][2]})

\* Every node holds the coordinate the layout routine assigned to it.
EveryNodeKeepsItsCoordinate(d1, d2) ==
  \A n \in DictKeys(d2) : DictGet(d1, n, <<>>) = DictGet(d2, n, <<>>)

\* C24 as stated: re-ordering the node positions by address
\* (order_by_ip=True) keeps the key set and the multiset of the coordinate
\* values for either layout, grid or spiral, and each node still holds the
\* coordinate the layout routine assigned to that node.
C24_ReorderKeepsCoordinateOfEachNode ==
  (Called("layout_network") /\ call.args[1]) =>
    /\ SameKeysAndValues(node_positions, AssignedByLayout)
    /\ EveryNodeKeepsItsCoordinate(node_positions, AssignedByLayout)

\* C24: re-ordering the node positions by address (order_by_ip=True) keeps
\* the key set and the multiset of the coordinate values for either layout,
\* and gives the i-th coordinate of the dict of the layout, in its
\* iteration order, to the i-th node in address order: with the grid
\* layout, whose dict is in address order, each node keeps its coordinate;
\* with the spiral layout the nodes exchange coordinates when the order of
\* the graph is not the address order.
C24_ReorderAssignsCoordinatesInAddressOrder ==
  (Called("layout_network") /\ call.args[1]) =>
    LET keys == SortedIPv4(DictKeys(AssignedByLayout))
    IN  /\ SameKeysAndValues(node_positions, AssignedByLayout)
        /\ DictKeySeq(node_positions) = keys
        /\ DictValueSeq(node_positions) = DictValueSeq(AssignedByLayout)
        /\ call.args[2] =>
             EveryNodeKeepsItsCoordinate(node_positions, AssignedByLayout)
        /\ DictKeySeq(AssignedByLayout) = keys =>
             EveryNodeKeepsItsCoordinate(node_positions, AssignedByLayout)

\* The spiral layout of a graph whose first node is not the first address,
\* re-ordered: 10.0.0.2 holds the coordinate the layout gave to 10.0.0.9.
C24_Witness ==
  /\ Called("layout_network")
  /\ call.args = <<TRUE, FALSE>>
  /\ Len(node_positions) = 3
  /\ GraphNodes(send_graph)[1] = "10.0.0.9"
  /\ DictGet(node_positions, "10.0.0.2", <<>>) = DictGet(AssignedByLayout, "10.0.0.9", <<>>)
  /\ DictGet(node_positions, "10.0.0.2", <<>>) # DictGet(AssignedByLayout, "10.0.0.2", <<>>)

\* The call of a method with an invalid selection has raised and returned
\* nothing.
InvalidSelectionHasRaised ==
  /\ (Called("find_edge_info") /\ call.args[1] \notin DictKeys(node_positions))
       => (returned.raised /\ returned.value = <<>>)
  /\ (Called("find_marker_text") /\ call.args[2] \notin Range(edge_types))
       => (returned.raised /\ returned.value = <<>>)

====
